---- MODULE Spec2Model ----
(***************************************************************************)
(* A model of the VM-to-Hack translator: the parser (parse.rs) that        *)
(* appends VmCommands to a shared VmProgram, the code generator            *)
(* (translate.rs) that lowers the commands to assembly, and the target     *)
(* machine that runs the generated assembly.                               *)
(*                                                                         *)
(* A source text is modelled by the sequence of symbols that               *)
(* Parser::advance_symbol returns for it; a symbol is the sequence of its  *)
(* characters.                                                             *)
(***************************************************************************)
EXTENDS Integers, Sequences, FiniteSets, TLC

VARIABLES
    commands,      \* VmProgram::commands
    static_size,   \* VmProgram::static_size
    files,         \* history: the command texts of every file parsed so far
    results,       \* history: per parsed file, TRUE iff parse returned Ok
    starts,        \* history: per parsed file, Len(commands) before the call
    sizes,         \* history: per parsed file, static_size before the call
    before,        \* history: commands before the latest parse call
    phase,         \* position of the pipeline of main.rs entry()
    asm,           \* Translator::result, as a sequence of assembly lines
    pc,            \* machine: index into asm of the next line to execute
    regA,          \* machine: the A register
    regD,          \* machine: the D register
    ram,           \* machine: data memory, address -> 16-bit word
    ram0,          \* history: data memory when the generated code started
    return_at,     \* history: where the code of the first `return` starts in asm
    snap           \* history: data memory when the code of `return` started

vars == <<commands, static_size, files, results, starts, sizes, before, phase, asm,
          pc, regA, regD, ram, ram0, return_at, snap>>

parserVars == <<commands, static_size, files, results, starts, sizes, before>>
machineVars == <<asm, pc, regA, regD, ram, ram0, return_at, snap>>

(***************************************************************************)
(* Bounds of the model.                                                    *)
(***************************************************************************)
MaxFiles == 2     \* source texts parsed into one program
MaxCmds == 4      \* commands in all the source texts of one program together
MaxIndex == 1     \* largest index of the push/pop round trips that are run
MaxArgs == 2      \* largest argument count of the calls that are run
MaxLocals == 2    \* largest local count of the functions that are run

(***************************************************************************)
(* vm_program.rs: keyword tables.  Each keyword is the character sequence  *)
(* of its text in the source file.                                         *)
(***************************************************************************)
ArithmeticOpcode_from_name(name) ==
    CASE name = <<"a","d","d">> -> "Add"
      [] name = <<"s","u","b">> -> "Sub"
      [] name = <<"n","e","g">> -> "Neg"
      [] name = <<"e","q">>     -> "Eq"
      [] name = <<"g","t">>     -> "Gt"
      [] name = <<"l","t">>     -> "Lt"
      [] name = <<"a","n","d">> -> "And"
      [] name = <<"o","r">>     -> "Or"
      [] name = <<"n","o","t">> -> "Not"
      [] OTHER -> "None"

MemorySegment_from_name(name) ==
    CASE name = <<"a","r","g","u","m","e","n","t">> -> "Argument"
      [] name = <<"l","o","c","a","l">>             -> "Local"
      [] name = <<"s","t","a","t","i","c">>         -> "Static"
      [] name = <<"c","o","n","s","t","a","n","t">> -> "Constant"
      [] name = <<"t","h","i","s">>                 -> "This"
      [] name = <<"t","h","a","t">>                 -> "That"
      [] name = <<"p","o","i","n","t","e","r">>     -> "Pointer"
      [] name = <<"t","e","m","p">>                 -> "Temp"
      [] OTHER -> "None"

\* CommandName::from_name: [name |-> variant, op |-> opcode of Arithmetic]
CommandName_from_name(name) ==
    CASE name = <<"p","u","s","h">>                 -> [name |-> "Push", op |-> "None"]
      [] name = <<"p","o","p">>                     -> [name |-> "Pop", op |-> "None"]
      [] name = <<"l","a","b","e","l">>             -> [name |-> "Label", op |-> "None"]
      [] name = <<"g","o","t","o">>                 -> [name |-> "Goto", op |-> "None"]
      [] name = <<"i","f","-","g","o","t","o">>     -> [name |-> "IfGoto", op |-> "None"]
      [] name = <<"f","u","n","c","t","i","o","n">> -> [name |-> "Function", op |-> "None"]
      [] name = <<"r","e","t","u","r","n">>         -> [name |-> "Return", op |-> "None"]
      [] name = <<"c","a","l","l">>                 -> [name |-> "Call", op |-> "None"]
      [] OTHER ->
           IF ArithmeticOpcode_from_name(name) # "None"
           THEN [name |-> "Arithmetic", op |-> ArithmeticOpcode_from_name(name)]
           ELSE [name |-> "None", op |-> "None"]

(***************************************************************************)
(* vm_program.rs: VmCommand and VmProgram.                                 *)
(***************************************************************************)
Arithmetic(op)            == [kind |-> "Arithmetic", op |-> op]
Push(segment, index)      == [kind |-> "Push", segment |-> segment, index |-> index]
Pop(segment, index)       == [kind |-> "Pop", segment |-> segment, index |-> index]
Label(name)               == [kind |-> "Label", name |-> name]
FnSetup(num_locals)       == [kind |-> "FnSetup", num_locals |-> num_locals]
Call(fn_name, num_args)   == [kind |-> "Call", fn_name |-> fn_name, num_args |-> num_args]
Goto(name)                == [kind |-> "Goto", name |-> name]
IfGoto(name)              == [kind |-> "IfGoto", name |-> name]
Return                    == [kind |-> "Return"]

\* VmProgram::push_command on the parser's output
push_command(p, command) == [p EXCEPT !.commands = Append(@, command)]

Max(a, b) == IF a >= b THEN a ELSE b

\* a slip of increase_static_size: the capacity is assigned, not maximised
increase_static_size_Assign(p, required_capacity) ==
    [p EXCEPT !.static_size = required_capacity]

\* VmProgram::increase_static_size on the parser's output
increase_static_size(p, required_capacity) ==
    [p EXCEPT !.static_size = Max(@, required_capacity)]

(***************************************************************************)
(* parse.rs.  A parser p is [source, static_base, commands, static_size]:  *)
(* the symbols left to read, the static base captured by Parser::new, and  *)
(* the two fields of the VmProgram it writes to.                           *)
(***************************************************************************)
\* a slip of Parser::new: every file's statics start at slot 0
Parser_new_ZeroBase(output_commands, output_static_size, source) ==
    [source      |-> source,
     static_base |-> 0,
     commands    |-> output_commands,
     static_size |-> output_static_size]

Parser_new(output_commands, output_static_size, source) ==
    [source      |-> source,
     static_base |-> output_static_size,
     commands    |-> output_commands,
     static_size |-> output_static_size]

\* the value of body for x = value, with value computed once
Bind(value, body(_)) == CHOOSE y \in { body(x) : x \in {value} } : TRUE

\* Parser::advance_symbol: the next symbol and the parser moved past it
advance_symbol(p) ==
    IF p.source = <<>>
    THEN [some |-> FALSE, symbol |-> <<>>, p |-> p]
    ELSE [some |-> TRUE, symbol |-> Head(p.source),
          p |-> [p EXCEPT !.source = Tail(@)]]

Digits == <<"0","1","2","3","4","5","6","7","8","9">>
IsDigit(ch) == \E d \in 1..10 : Digits[d] = ch
DigitValue(ch) == (CHOOSE d \in 1..10 : Digits[d] = ch) - 1

RECURSIVE DecimalValue(_, _)
DecimalValue(chars, acc) ==
    IF chars = <<>> THEN acc
    ELSE DecimalValue(Tail(chars), acc * 10 + DigitValue(Head(chars)))

\* str::parse::<usize>: an optional '+', then one or more decimal digits
parse_usize(symbol) ==
    Bind(IF symbol # <<>> /\ Head(symbol) = "+" THEN Tail(symbol) ELSE symbol,
         LAMBDA digits :
           IF digits # <<>> /\ \A i \in 1..Len(digits) : IsDigit(digits[i])
           THEN [ok |-> TRUE, value |-> DecimalValue(digits, 0)]
           ELSE [ok |-> FALSE, value |-> 0])

MaxConstant == 32767

advance_constant(p) ==
    Bind(advance_symbol(p), LAMBDA s :
      IF s.some
      THEN Bind(parse_usize(s.symbol), LAMBDA parsed :
             IF ~parsed.ok THEN [ok |-> FALSE, value |-> 0, p |-> s.p]
             ELSE IF parsed.value > MaxConstant THEN [ok |-> FALSE, value |-> 0, p |-> s.p]
             ELSE [ok |-> TRUE, value |-> parsed.value, p |-> s.p])
      ELSE [ok |-> FALSE, value |-> 0, p |-> s.p])

Letters == {"a","b","c","d","e","f","g","h","i","j","k","l","m","n","o","p","q",
            "r","s","t","u","v","w","x","y","z",
            "A","B","C","D","E","F","G","H","I","J","K","L","M","N","O","P","Q",
            "R","S","T","U","V","W","X","Y","Z"}

advance_identifier(p) ==
    Bind(advance_symbol(p), LAMBDA s :
      IF s.some
      THEN IF \E idx \in 1..Len(s.symbol) :
                \/ ~(\/ s.symbol[idx] \in Letters
                     \/ IsDigit(s.symbol[idx])
                     \/ s.symbol[idx] \in {"_", ".", ":"})
                \/ (IsDigit(s.symbol[idx]) /\ idx = 1)
           THEN [ok |-> FALSE, value |-> <<>>, p |-> s.p]
           ELSE [ok |-> TRUE, value |-> s.symbol, p |-> s.p]
      ELSE [ok |-> FALSE, value |-> <<>>, p |-> s.p])

advance_mem_segment(p) ==
    Bind(advance_symbol(p), LAMBDA s :
      IF s.some
      THEN Bind(MemorySegment_from_name(s.symbol), LAMBDA segment :
             IF segment = "None" THEN [ok |-> FALSE, value |-> "None", p |-> s.p]
             ELSE [ok |-> TRUE, value |-> segment, p |-> s.p])
      ELSE [ok |-> FALSE, value |-> "None", p |-> s.p])

\* a slip of parse_push_pop_args: the pop-into-constant check comes after the
\* command is appended
parse_push_pop_args_LateCheck(p, is_push) ==
    Bind(advance_mem_segment(p), LAMBDA seg :
      IF ~seg.ok THEN [ok |-> FALSE, p |-> seg.p] ELSE
      Bind(advance_constant(seg.p), LAMBDA con :
        IF ~con.ok THEN [ok |-> FALSE, p |-> con.p] ELSE
        Bind(IF seg.value = "Static" THEN con.value + con.p.static_base ELSE con.value,
             LAMBDA index :
          Bind(IF seg.value = "Static" THEN increase_static_size(con.p, index + 1)
               ELSE con.p,
               LAMBDA p1 :
            IF is_push
            THEN [ok |-> TRUE, p |-> push_command(p1, Push(seg.value, index))]
            ELSE [ok |-> seg.value # "Constant",
                  p |-> push_command(p1, Pop(seg.value, index))]))))

\* a slip of parse_push_pop_args: the pop-into-constant check is left out
parse_push_pop_args_NoPopCheck(p, is_push) ==
    Bind(advance_mem_segment(p), LAMBDA seg :
      IF ~seg.ok THEN [ok |-> FALSE, p |-> seg.p] ELSE
      Bind(advance_constant(seg.p), LAMBDA con :
        IF ~con.ok THEN [ok |-> FALSE, p |-> con.p] ELSE
        Bind(IF seg.value = "Static" THEN con.value + con.p.static_base ELSE con.value,
             LAMBDA index :
          Bind(IF seg.value = "Static" THEN increase_static_size(con.p, index + 1)
               ELSE con.p,
               LAMBDA p1 :
            IF is_push
            THEN [ok |-> TRUE, p |-> push_command(p1, Push(seg.value, index))]
            ELSE [ok |-> TRUE, p |-> push_command(p1, Pop(seg.value, index))]))))

parse_push_pop_args(p, is_push) ==
    Bind(advance_mem_segment(p), LAMBDA seg :
      IF ~seg.ok THEN [ok |-> FALSE, p |-> seg.p] ELSE
      Bind(advance_constant(seg.p), LAMBDA con :
        IF ~con.ok THEN [ok |-> FALSE, p |-> con.p] ELSE
        Bind(IF seg.value = "Static" THEN con.value + con.p.static_base ELSE con.value,
             LAMBDA index :
          Bind(IF seg.value = "Static" THEN increase_static_size(con.p, index + 1)
               ELSE con.p,
               LAMBDA p1 :
            IF is_push
            THEN [ok |-> TRUE, p |-> push_command(p1, Push(seg.value, index))]
            ELSE IF seg.value = "Constant" THEN [ok |-> FALSE, p |-> p1]
            ELSE [ok |-> TRUE, p |-> push_command(p1, Pop(seg.value, index))]))))

advance_command_arguments(p, command) ==
    CASE command.name = "Arithmetic" ->
           [ok |-> TRUE, p |-> push_command(p, Arithmetic(command.op))]
      [] command.name = "Call" ->
           Bind(advance_identifier(p), LAMBDA fn_name :
             IF ~fn_name.ok THEN [ok |-> FALSE, p |-> fn_name.p] ELSE
             Bind(advance_constant(fn_name.p), LAMBDA num_args :
               IF ~num_args.ok THEN [ok |-> FALSE, p |-> num_args.p] ELSE
               [ok |-> TRUE,
                p |-> push_command(num_args.p, Call(fn_name.value, num_args.value))]))
      [] command.name = "Function" ->
           Bind(advance_identifier(p), LAMBDA ident :
             IF ~ident.ok THEN [ok |-> FALSE, p |-> ident.p] ELSE
             Bind(advance_constant(ident.p), LAMBDA num_locals :
               IF ~num_locals.ok THEN [ok |-> FALSE, p |-> num_locals.p] ELSE
               [ok |-> TRUE,
                p |-> push_command(push_command(num_locals.p, Label(ident.value)),
                                   FnSetup(num_locals.value))]))
      [] command.name = "Goto" ->
           Bind(advance_identifier(p), LAMBDA ident :
             IF ~ident.ok THEN [ok |-> FALSE, p |-> ident.p] ELSE
             [ok |-> TRUE, p |-> push_command(ident.p, Goto(ident.value))])
      [] command.name = "IfGoto" ->
           Bind(advance_identifier(p), LAMBDA ident :
             IF ~ident.ok THEN [ok |-> FALSE, p |-> ident.p] ELSE
             [ok |-> TRUE, p |-> push_command(ident.p, IfGoto(ident.value))])
      [] command.name = "Label" ->
           Bind(advance_identifier(p), LAMBDA ident :
             IF ~ident.ok THEN [ok |-> FALSE, p |-> ident.p] ELSE
             [ok |-> TRUE, p |-> push_command(ident.p, Label(ident.value))])
      [] command.name = "Push" -> parse_push_pop_args(p, TRUE)
      [] command.name = "Pop" -> parse_push_pop_args(p, FALSE)
      [] command.name = "Return" -> [ok |-> TRUE, p |-> push_command(p, Return)]

\* Parser::advance_command: more is the Ok(bool) of the source
advance_command(p) ==
    Bind(advance_symbol(p), LAMBDA next :
      IF ~next.some THEN [ok |-> TRUE, more |-> FALSE, p |-> next.p] ELSE
      Bind(CommandName_from_name(next.symbol), LAMBDA command_name :
        IF command_name.name # "None"
        THEN Bind(advance_command_arguments(next.p, command_name), LAMBDA r :
               [ok |-> r.ok, more |-> r.ok, p |-> r.p])
        ELSE [ok |-> FALSE, more |-> FALSE, p |-> next.p]))

\* the loop of parse: while parser.advance_command()? {}
RECURSIVE parse_loop(_)
parse_loop(p) ==
    Bind(advance_command(p), LAMBDA r :
      IF ~r.ok THEN [ok |-> FALSE, p |-> r.p]
      ELSE IF r.more THEN parse_loop(r.p)
      ELSE [ok |-> TRUE, p |-> r.p])

\* parse(into, source, file_path): the result and the program as it leaves it
parse(into_commands, into_static_size, source) ==
    Bind(parse_loop(Parser_new(into_commands, into_static_size, source)), LAMBDA r :
      [ok |-> r.ok, commands |-> r.p.commands, static_size |-> r.p.static_size])

(***************************************************************************)
(* translate.rs.  The output text is modelled by the sequence of its       *)
(* assembly lines without the comments: At(x) is the line `@x`, where x is *)
(* the character sequence written after the `@`; Comp(dest, comp, jump) is *)
(* `dest=comp` or `comp;jump`; Mark(l) is the label line `(l)`.            *)
(***************************************************************************)
STACK_MEMORY_START == 256

At(operand)            == [op |-> "At", operand |-> operand]
Comp(dest, comp, jump) == [op |-> "Comp", dest |-> dest, comp |-> comp, jump |-> jump]
Mark(name)             == [op |-> "Mark", name |-> name]

STACK_POINTER_ADDR    == <<"S","P">>
LOCAL_POINTER_ADDR    == <<"L","C","L">>
ARGUMENT_POINTER_ADDR == <<"A","R","G">>
THIS_POINTER_ADDR     == <<"T","H","I","S">>
THAT_POINTER_ADDR     == <<"T","H","A","T">>
R13 == <<"R","1","3">>
R14 == <<"R","1","4">>
R15 == <<"R","1","5">>

\* format!("{}", n) of an unsigned integer: its decimal digits
RECURSIVE ToDecimal(_)
ToDecimal(n) ==
    IF n < 10 THEN <<Digits[n + 1]>>
    ELSE Append(ToDecimal(n \div 10), Digits[(n % 10) + 1])

\* a translator t is [next_unnamed_label_id, result, current_num_locals, panicked]
emit(t, lines) == [t EXCEPT !.result = @ \o lines]

make_label(t) ==
    [label |-> <<"_","_","V","M","_","I","M","P","L","_","L","A","B","E","L","_">>
                 \o ToDecimal(t.next_unnamed_label_id),
     t |-> [t EXCEPT !.next_unnamed_label_id = @ + 1]]

push(t, from) ==
    emit(t, (IF from # "D" THEN <<Comp("D", from, "")>> ELSE <<>>) \o
            << At(STACK_POINTER_ADDR), Comp("A", "M", ""), Comp("M", "D", ""),
               Comp("D", "A+1", ""), At(STACK_POINTER_ADDR), Comp("M", "D", "") >>)

pop(t, into) ==
    emit(t, << At(STACK_POINTER_ADDR), Comp("A", "M-1", ""), Comp("D", "M", ""),
               At(R13), Comp("M", "D", ""),
               At(STACK_POINTER_ADDR), Comp("M", "M-1", ""),
               At(R13), Comp(into, "M", "") >>)

\* a slip of the comparison arm: the operands are subtracted the other way round
translate_comparison_Swapped(t, opcode) ==
    Bind(make_label(pop(t, "D")), LAMBDA skip_set_false :
      emit(skip_set_false.t,
           << At(STACK_POINTER_ADDR), Comp("A", "M-1", ""), Comp("D", "D-M", ""),
              Comp("M", "-1", ""),
              At(skip_set_false.label),
              Comp("", "D", CASE opcode = "Eq" -> "JEQ"
                              [] opcode = "Gt" -> "JGT"
                              [] opcode = "Lt" -> "JLT"),
              At(STACK_POINTER_ADDR), Comp("A", "M-1", ""), Comp("M", "0", ""),
              Mark(skip_set_false.label) >>))

\* the Eq | Gt | Lt arm of translate_arithmetic_opcode
translate_comparison(t, opcode) ==
    Bind(make_label(pop(t, "D")), LAMBDA skip_set_false :
      emit(skip_set_false.t,
           << At(STACK_POINTER_ADDR), Comp("A", "M-1", ""), Comp("D", "M-D", ""),
              Comp("M", "-1", ""),
              At(skip_set_false.label),
              Comp("", "D", CASE opcode = "Eq" -> "JEQ"
                              [] opcode = "Gt" -> "JGT"
                              [] opcode = "Lt" -> "JLT"),
              At(STACK_POINTER_ADDR), Comp("A", "M-1", ""), Comp("M", "0", ""),
              Mark(skip_set_false.label) >>))

\* a slip of translate_arithmetic_opcode: sub subtracts the other way round
translate_arithmetic_opcode_Swapped(t, opcode) ==
    IF opcode \in {"Eq", "Gt", "Lt"} THEN translate_comparison(t, opcode) ELSE
    emit(IF opcode \notin {"Neg", "Not"} THEN pop(t, "D") ELSE t,
         << At(STACK_POINTER_ADDR), Comp("A", "M-1", ""),
            Comp("M", CASE opcode = "Add" -> "M+D"
                        [] opcode = "Sub" -> "D-M"
                        [] opcode = "Neg" -> "-M"
                        [] opcode = "And" -> "M&D"
                        [] opcode = "Or"  -> "M|D"
                        [] opcode = "Not" -> "!M", "") >>)

translate_arithmetic_opcode(t, opcode) ==
    IF opcode \in {"Eq", "Gt", "Lt"} THEN translate_comparison(t, opcode) ELSE
    emit(IF opcode \notin {"Neg", "Not"} THEN pop(t, "D") ELSE t,
         << At(STACK_POINTER_ADDR), Comp("A", "M-1", ""),
            Comp("M", CASE opcode = "Add" -> "M+D"
                        [] opcode = "Sub" -> "M-D"
                        [] opcode = "Neg" -> "-M"
                        [] opcode = "And" -> "M&D"
                        [] opcode = "Or"  -> "M|D"
                        [] opcode = "Not" -> "!M", "") >>)

\* the pushes of translate_call: the return address and the four pointers
push_frame(t, ret_label) ==
    push(emit(push(emit(push(emit(push(emit(push(emit(t,
        <<At(ret_label)>>), "A"),
        <<At(LOCAL_POINTER_ADDR)>>), "M"),
        <<At(ARGUMENT_POINTER_ADDR)>>), "M"),
        <<At(THIS_POINTER_ADDR)>>), "M"),
        <<At(THAT_POINTER_ADDR)>>), "M")

\* a slip of translate_call: the new ARG forgets the pushed return address
translate_call_ShortFrame(t, fn_name, num_args) ==
    Bind(make_label(t), LAMBDA ret_label :
      emit(push_frame(ret_label.t, ret_label.label),
           << At(ToDecimal(num_args)), Comp("D", "A", ""),
              At(<<"4">>), Comp("D", "D+A", ""),
              At(STACK_POINTER_ADDR), Comp("D", "M-D", ""),
              At(ARGUMENT_POINTER_ADDR), Comp("M", "D", ""),
              At(STACK_POINTER_ADDR), Comp("D", "M", ""),
              At(LOCAL_POINTER_ADDR), Comp("M", "D", ""),
              At(fn_name), Comp("", "0", "JEQ"),
              Mark(ret_label.label) >>))

translate_call(t, fn_name, num_args) ==
    Bind(make_label(t), LAMBDA ret_label :
      emit(push_frame(ret_label.t, ret_label.label),
           << At(ToDecimal(num_args)), Comp("D", "A", ""),
              At(<<"5">>), Comp("D", "D+A", ""),
              At(STACK_POINTER_ADDR), Comp("D", "M-D", ""),
              At(ARGUMENT_POINTER_ADDR), Comp("M", "D", ""),
              At(STACK_POINTER_ADDR), Comp("D", "M", ""),
              At(LOCAL_POINTER_ADDR), Comp("M", "D", ""),
              At(fn_name), Comp("", "0", "JEQ"),
              Mark(ret_label.label) >>))

RECURSIVE push_locals(_, _)
push_locals(t, count) ==
    IF count = 0 THEN t
    ELSE Bind(push(emit(t, <<Comp("D", "0", "")>>), "D"), LAMBDA next :
           push_locals(next, count - 1))

translate_fn_setup(t, num_locals) ==
    push_locals([t EXCEPT !.current_num_locals = num_locals], num_locals)

\* pop(D) followed by `@cell M=D`, as translate_return does for each saved value
pop_into(t, cell) == emit(pop(t, "D"), << At(cell), Comp("M", "D", "") >>)

\* a slip of translate_return: the return address is fetched from its frame
\* slot only after the return value has been written
translate_return_LateAddress(t) ==
    emit(push(emit(pop_into(pop_into(pop_into(pop_into(
           emit(pop_into(t, R14),
                << At(LOCAL_POINTER_ADDR), Comp("D", "M", ""),
                   At(STACK_POINTER_ADDR), Comp("M", "D", ""),
                   At(ARGUMENT_POINTER_ADDR), Comp("D", "M", ""),
                   At(R15), Comp("M", "D", "") >>),
           THAT_POINTER_ADDR), THIS_POINTER_ADDR), ARGUMENT_POINTER_ADDR),
           LOCAL_POINTER_ADDR),
           << At(STACK_POINTER_ADDR), Comp("D", "M-1", ""),
              At(R13), Comp("M", "D", ""),
              At(R15), Comp("D", "M", ""),
              At(STACK_POINTER_ADDR), Comp("M", "D", ""), At(R14) >>), "M"),
         << At(R13), Comp("A", "M", ""), Comp("A", "M", ""), Comp("", "0", "JEQ") >>)

translate_return(t) ==
    emit(push(emit(pop_into(pop_into(pop_into(pop_into(pop_into(
           emit(pop_into(t, R14),
                << At(LOCAL_POINTER_ADDR), Comp("D", "M", ""),
                   At(STACK_POINTER_ADDR), Comp("M", "D", ""),
                   At(ARGUMENT_POINTER_ADDR), Comp("D", "M", ""),
                   At(R15), Comp("M", "D", "") >>),
           THAT_POINTER_ADDR), THIS_POINTER_ADDR), ARGUMENT_POINTER_ADDR),
           LOCAL_POINTER_ADDR), R13),
           << At(R15), Comp("D", "M", ""),
              At(STACK_POINTER_ADDR), Comp("M", "D", ""), At(R14) >>), "M"),
         << At(R13), Comp("A", "M", ""), Comp("", "0", "JEQ") >>)

load_d_from_offset(offset) ==
    << At(ToDecimal(offset)), Comp("D", "M", "") >>

load_d_from_ptr_offset(ptr_name, offset) ==
    << At(ptr_name), Comp("D", "M", ""), At(ToDecimal(offset)),
       Comp("A", "D+A", ""), Comp("D", "M", "") >>

store_d_into_offset(offset) ==
    << At(ToDecimal(offset)), Comp("M", "D", "") >>

store_d_into_ptr_offset(ptr_name, offset) ==
    << At(R13), Comp("M", "D", ""),
       At(ptr_name), Comp("D", "A", ""),
       At(ToDecimal(offset)), Comp("D", "D+A", ""),
       At(R14), Comp("M", "D", ""),
       At(R13), Comp("D", "M", ""),
       At(R14), Comp("A", "M", ""), Comp("M", "D", "") >>

\* unimplemented!() and unreachable!(): the translator panics
panic(t) == [t EXCEPT !.panicked = TRUE]

translate_push(t, segment, index) ==
    CASE segment = "Constant" ->
           push(emit(t, << At(ToDecimal(index)), Comp("D", "A", "") >>), "D")
      [] segment = "Local" ->
           push(emit(t, load_d_from_ptr_offset(LOCAL_POINTER_ADDR, index)), "D")
      [] segment = "Argument" ->
           push(emit(t, load_d_from_ptr_offset(ARGUMENT_POINTER_ADDR, index)), "D")
      [] segment = "This" ->
           push(emit(t, load_d_from_ptr_offset(THIS_POINTER_ADDR, index)), "D")
      [] segment = "That" ->
           push(emit(t, load_d_from_ptr_offset(THAT_POINTER_ADDR, index)), "D")
      [] segment = "Pointer" ->
           push(emit(t, load_d_from_offset(3 + index)), "D")
      [] segment = "Temp" ->
           push(emit(t, load_d_from_offset(5 + index)), "D")
      [] OTHER -> panic(t)

translate_pop(t, segment, index) ==
    CASE segment = "Constant" -> panic(t)
      [] segment = "Local" ->
           emit(pop(t, "D"), store_d_into_ptr_offset(LOCAL_POINTER_ADDR, index))
      [] segment = "Argument" ->
           emit(pop(t, "D"), store_d_into_ptr_offset(ARGUMENT_POINTER_ADDR, index))
      [] segment = "This" ->
           emit(pop(t, "D"), store_d_into_ptr_offset(THIS_POINTER_ADDR, index))
      [] segment = "That" ->
           emit(pop(t, "D"), store_d_into_ptr_offset(THAT_POINTER_ADDR, index))
      [] segment = "Pointer" ->
           emit(pop(t, "D"), store_d_into_offset(3 + index))
      [] segment = "Temp" ->
           emit(pop(t, "D"), store_d_into_offset(5 + index))
      [] OTHER -> panic(t)

translate_command(t, command) ==
    CASE command.kind = "Arithmetic" -> translate_arithmetic_opcode(t, command.op)
      [] command.kind = "Call" -> translate_call(t, command.fn_name, command.num_args)
      [] command.kind = "FnSetup" -> translate_fn_setup(t, command.num_locals)
      [] command.kind = "Goto" ->
           emit(t, << At(command.name), Comp("", "0", "JEQ") >>)
      [] command.kind = "IfGoto" -> panic(t)
      [] command.kind = "Label" -> emit(t, << Mark(command.name) >>)
      [] command.kind = "Push" -> translate_push(t, command.segment, command.index)
      [] command.kind = "Pop" -> translate_pop(t, command.segment, command.index)
      [] command.kind = "Return" -> translate_return(t)

\* Translator::translate: the loop over the commands; a panic ends it
RECURSIVE Translator_translate(_, _)
Translator_translate(t, cmds) ==
    IF cmds = <<>> \/ t.panicked THEN t
    ELSE Bind(translate_command(t, Head(cmds)), LAMBDA next :
           Translator_translate(next, Tail(cmds)))

\* translate(program): Ok(text), or the process aborts in a panic
translate(program_commands) ==
    Bind(Translator_translate([next_unnamed_label_id |-> 0,
                               result |-> <<>>,
                               current_num_locals |-> 0,
                               panicked |-> FALSE],
                              program_commands),
         LAMBDA t : IF t.panicked THEN [ok |-> FALSE, text |-> <<>>]
                    ELSE [ok |-> TRUE, text |-> t.result])

(***************************************************************************)
(* The target machine that runs the generated assembly: 16-bit words, the  *)
(* registers A and D, and M, the memory cell A addresses.  Program         *)
(* addresses are positions in the output text; a label line holds the      *)
(* position it marks and executes as a step to the next line.  Memory is   *)
(* a function on the cells written so far; every other cell holds 0.       *)
(***************************************************************************)
ToWord(n) == n % 65536
Signed(w) == IF w >= 32768 THEN w - 65536 ELSE w

RECURSIVE Bitwise(_, _, _, _)
Bitwise(isAnd, a, b, bits) ==
    IF bits = 0 THEN 0
    ELSE LET bit == IF isAnd THEN (a % 2) * (b % 2)
                    ELSE IF (a % 2) + (b % 2) > 0 THEN 1 ELSE 0
         IN  bit + 2 * Bitwise(isAnd, a \div 2, b \div 2, bits - 1)

BitAnd(a, b) == Bitwise(TRUE, a, b, 16)
BitOr(a, b)  == Bitwise(FALSE, a, b, 16)
BitNot(a)    == 65535 - a

Read(mem, addr) == IF addr \in DOMAIN mem THEN mem[addr] ELSE 0
Write(mem, addr, value) ==
    [a \in (DOMAIN mem) \cup {addr} |-> IF a = addr THEN value ELSE mem[a]]

IsNumber(operand) == \A i \in 1..Len(operand) : IsDigit(operand[i])

\* the symbols the assembler predefines, among them the ones translate.rs names
IsPredefined(operand) ==
    \/ operand \in {STACK_POINTER_ADDR, LOCAL_POINTER_ADDR, ARGUMENT_POINTER_ADDR,
                    THIS_POINTER_ADDR, THAT_POINTER_ADDR}
    \/ /\ Len(operand) >= 2
       /\ Head(operand) = "R"
       /\ IsNumber(Tail(operand))
       /\ DecimalValue(Tail(operand), 0) <= 15
       /\ Tail(operand) = ToDecimal(DecimalValue(Tail(operand), 0))

PredefinedValue(operand) ==
    CASE operand = STACK_POINTER_ADDR    -> 0
      [] operand = LOCAL_POINTER_ADDR    -> 1
      [] operand = ARGUMENT_POINTER_ADDR -> 2
      [] operand = THIS_POINTER_ADDR     -> 3
      [] operand = THAT_POINTER_ADDR     -> 4
      [] OTHER -> DecimalValue(Tail(operand), 0)

MarksOf(text, name) ==
    { i \in 1..Len(text) : text[i].op = "Mark" /\ text[i].name = name }

\* the symbols of the text that are neither predefined nor labels: variables,
\* which the assembler places from cell 16 on
VariablesOf(text) ==
    { text[i].operand : i \in { j \in 1..Len(text) :
          /\ text[j].op = "At"
          /\ ~IsNumber(text[j].operand)
          /\ ~IsPredefined(text[j].operand)
          /\ MarksOf(text, text[j].operand) = {} } }

\* the values `@operand` can load: a number, a predefined symbol, a position the
\* label marks (any of them when it is defined more than once), or else one of
\* the variable cells
Resolve(text, operand) ==
    IF IsNumber(operand) THEN {DecimalValue(operand, 0)}
    ELSE IF IsPredefined(operand) THEN {PredefinedValue(operand)}
    ELSE IF MarksOf(text, operand) # {} THEN MarksOf(text, operand)
    ELSE 16..(15 + Cardinality(VariablesOf(text)))

\* the value of the comp field of a C-instruction
Alu(comp, a, d, m) ==
    CASE comp = "0"   -> 0
      [] comp = "-1"  -> 65535
      [] comp = "A"   -> a
      [] comp = "D"   -> d
      [] comp = "M"   -> m
      [] comp = "A+1" -> ToWord(a + 1)
      [] comp = "M-1" -> ToWord(m - 1)
      [] comp = "D+A" -> ToWord(d + a)
      [] comp = "M+D" -> ToWord(m + d)
      [] comp = "M-D" -> ToWord(m - d)
      [] comp = "D-M" -> ToWord(d - m)
      [] comp = "-M"  -> ToWord(0 - m)
      [] comp = "!M"  -> BitNot(m)
      [] comp = "M&D" -> BitAnd(m, d)
      [] comp = "M|D" -> BitOr(m, d)

Jumps(jump, value) ==
    CASE jump = ""    -> FALSE
      [] jump = "JEQ" -> value = 0
      [] jump = "JGT" -> Signed(value) > 0
      [] jump = "JLT" -> Signed(value) < 0

Running == phase = "run" /\ pc \in 1..Len(asm)
Halted  == phase = "run" /\ pc \notin 1..Len(asm)

\* where the code of the first Return of the program starts in the output
ReturnStart(text_commands) ==
    IF \E r \in 1..Len(text_commands) : text_commands[r].kind = "Return"
    THEN Len(translate(SubSeq(text_commands, 1,
               (CHOOSE r \in 1..Len(text_commands) :
                   /\ text_commands[r].kind = "Return"
                   /\ \A q \in 1..(r - 1) : text_commands[q].kind # "Return") - 1)).text)
         + 1
    ELSE 0

Snapshot(newPc, newRam) ==
    snap' = IF newPc = return_at THEN newRam ELSE snap

\* main.rs entry(): translate::translate(program) after the files are parsed
Translate ==
    /\ phase = "parsed"
    /\ \A i \in 1..Len(results) : results[i]
    /\ \E r \in {translate(commands)} :
         IF r.ok
         THEN /\ phase' = "run"
              /\ asm' = r.text
              /\ pc' = 1
              /\ return_at' = ReturnStart(commands)
              /\ snap' = IF return_at' = 1 THEN ram ELSE snap
         ELSE /\ phase' = "panic"
              /\ UNCHANGED <<asm, pc, return_at, snap>>
    /\ UNCHANGED <<parserVars, regA, regD, ram, ram0>>

\* the machine executes `@operand`
StepAt ==
    /\ Running
    /\ asm[pc].op = "At"
    /\ \E value \in Resolve(asm, asm[pc].operand) : regA' = value
    /\ pc' = pc + 1
    /\ Snapshot(pc + 1, ram)
    /\ UNCHANGED <<parserVars, phase, asm, regD, ram, ram0, return_at>>

\* the machine executes `dest=comp` or `comp;jump`
StepComp ==
    /\ Running
    /\ asm[pc].op = "Comp"
    /\ \E value \in {Alu(asm[pc].comp, regA, regD, Read(ram, regA))} :
         /\ regA' = IF asm[pc].dest = "A" THEN value ELSE regA
         /\ regD' = IF asm[pc].dest = "D" THEN value ELSE regD
         /\ ram' = IF asm[pc].dest = "M" THEN Write(ram, regA, value) ELSE ram
         /\ pc' = IF Jumps(asm[pc].jump, value) THEN regA ELSE pc + 1
         /\ snap' = IF pc' = return_at THEN ram' ELSE snap
    /\ UNCHANGED <<parserVars, phase, asm, ram0, return_at>>

\* the machine passes a label line
StepMark ==
    /\ Running
    /\ asm[pc].op = "Mark"
    /\ pc' = pc + 1
    /\ Snapshot(pc + 1, ram)
    /\ UNCHANGED <<parserVars, phase, asm, regA, regD, ram, ram0, return_at>>

(***************************************************************************)
(* The parser specification: main.rs creates an empty program and adds     *)
(* one file after the other to it.  A file is a sequence of command texts  *)
(* and its source is their symbols one after the other.                    *)
(***************************************************************************)
ParserTexts ==
    { <<<<"p","u","s","h">>, <<"s","t","a","t","i","c">>, <<"0">>>>,
      <<<<"p","u","s","h">>, <<"s","t","a","t","i","c">>, <<"1">>>>,
      <<<<"p","o","p">>, <<"s","t","a","t","i","c">>, <<"1">>>>,
      <<<<"p","o","p">>, <<"c","o","n","s","t","a","n","t">>, <<"0">>>>,
      <<<<"f","u","n","c","t","i","o","n">>, <<"f">>, <<"1">>>>,
      <<<<"f","u","n","c","t","i","o","n">>, <<"f">>, <<"x">>>>,
      <<<<"e","q">>>> }

RECURSIVE Flatten(_)
Flatten(texts) ==
    IF texts = <<>> THEN <<>> ELSE Head(texts) \o Flatten(Tail(texts))

RECURSIVE TotalLen(_)
TotalLen(seqs) ==
    IF seqs = <<>> THEN 0 ELSE Len(Head(seqs)) + TotalLen(Tail(seqs))

SeqsUpTo(S, n) == UNION { [1..k -> S] : k \in 0..n }

MachineIdle ==
    /\ asm = <<>>
    /\ pc = 0
    /\ regA = 0
    /\ regD = 0
    /\ ram = <<>>
    /\ ram0 = <<>>
    /\ return_at = 0
    /\ snap = <<>>

\* VmProgram::new, before any file is added
Init ==
    /\ commands = <<>>
    /\ static_size = 0
    /\ files = <<>>
    /\ results = <<>>
    /\ starts = <<>>
    /\ sizes = <<>>
    /\ before = <<>>
    /\ phase = "parse"
    /\ MachineIdle

\* add_file: one call of parse on the shared program
ParseFile ==
    /\ phase = "parse"
    /\ Len(files) < MaxFiles
    /\ \E texts \in SeqsUpTo(ParserTexts, MaxCmds - TotalLen(files)) :
         \E r \in {parse(commands, static_size, Flatten(texts))} :
           /\ commands' = r.commands
           /\ static_size' = r.static_size
           /\ files' = Append(files, texts)
           /\ results' = Append(results, r.ok)
           /\ starts' = Append(starts, Len(commands))
           /\ sizes' = Append(sizes, static_size)
           /\ before' = commands
    /\ UNCHANGED <<phase, machineVars>>

Next == ParseFile

Spec == Init /\ [][Next]_vars

(***************************************************************************)
(* The argument specification: every file added to the program holds one   *)
(* command with a numeric argument, made of the symbols before the         *)
(* argument (a slot) and the symbol in the argument's place (a token).     *)
(***************************************************************************)
SegmentNames ==
    { <<"a","r","g","u","m","e","n","t">>, <<"l","o","c","a","l">>,
      <<"s","t","a","t","i","c">>, <<"c","o","n","s","t","a","n","t">>,
      <<"t","h","i","s">>, <<"t","h","a","t">>,
      <<"p","o","i","n","t","e","r">>, <<"t","e","m","p">> }

PushSlots == { << <<"p","u","s","h">>, seg >> :
                 seg \in { <<"c","o","n","s","t","a","n","t">>,
                           <<"s","t","a","t","i","c">> } }

PopSlots == { << <<"p","o","p">>, seg >> : seg \in SegmentNames }

CountSlots == { << <<"f","u","n","c","t","i","o","n">>, <<"f">> >>,
                << <<"c","a","l","l">>, <<"f">> >> }

ArgumentSlots == PushSlots \cup PopSlots \cup CountSlots

ArgumentTokens ==
    { <<"0">>, <<"3","2","7","6","7">>, <<"3","2","7","6","8">>,
      <<"3","x">>, <<"+","5">>, <<"-","5">> }

\* add_file on a file of one command: one call of parse on the shared program
ParseArgument ==
    /\ phase = "parse"
    /\ Len(files) < MaxFiles
    /\ \E slot \in ArgumentSlots, token \in ArgumentTokens :
         \E r \in {parse(commands, static_size, Append(slot, token))} :
           /\ commands' = r.commands
           /\ static_size' = r.static_size
           /\ files' = Append(files, << Append(slot, token) >>)
           /\ results' = Append(results, r.ok)
           /\ starts' = Append(starts, Len(commands))
           /\ sizes' = Append(sizes, static_size)
           /\ before' = commands
    /\ UNCHANGED <<phase, machineVars>>

NextArgs == ParseArgument

SpecArgs == Init /\ [][NextArgs]_vars

(***************************************************************************)
(* The execution specification:one source text is parsed into an empty    *)
(* program, the program is translated, and the machine runs the output     *)
(* from a memory in which the stack pointer and the four segment pointers  *)
(* are set up.                                                             *)
(***************************************************************************)
KwPush     == <<"p","u","s","h">>
KwPop      == <<"p","o","p">>
KwLabel    == <<"l","a","b","e","l">>
KwGoto     == <<"g","o","t","o">>
KwIfGoto   == <<"i","f","-","g","o","t","o">>
KwFunction == <<"f","u","n","c","t","i","o","n">>
KwCall     == <<"c","a","l","l">>
KwReturn   == <<"r","e","t","u","r","n">>
KwConstant == <<"c","o","n","s","t","a","n","t">>
KwArgument == <<"a","r","g","u","m","e","n","t">>
KwStatic   == <<"s","t","a","t","i","c">>

OpTexts == { <<"a","d","d">>, <<"s","u","b">>, <<"n","e","g">>, <<"e","q">>,
             <<"g","t">>, <<"l","t">>, <<"a","n","d">>, <<"o","r">>, <<"n","o","t">> }

RoundTripSegments == { <<"l","o","c","a","l">>, KwArgument, <<"t","h","i","s">>,
                       <<"t","h","a","t">>, <<"p","o","i","n","t","e","r">>,
                       <<"t","e","m","p">> }

PushConstant(n) == <<KwPush, KwConstant, ToDecimal(n)>>

\* the operand values the arithmetic runs start from, as 16-bit words
Operands == {0, 1, 5, 32767, 32768, 65535}

\* the values of the LCL, ARG, THIS and THAT cells a run starts from
PointerSets == { <<300, 400, 3000, 3010>>, <<310, 405, 3005, 3020>> }

Frame(sp, ptrs) ==
    (0 :> sp) @@ (1 :> ptrs[1]) @@ (2 :> ptrs[2]) @@ (3 :> ptrs[3]) @@ (4 :> ptrs[4])

\* the cells of the temp segment and of the four pointed-to segments
SegmentCells(ptrs) ==
    [a \in (5..12) \cup { ptrs[b] + j : b \in 1..4, j \in 0..(MaxIndex + 1) }
       |-> 1000 + a]

RECURSIVE Repeat(_, _)
Repeat(text, n) == IF n = 0 THEN <<>> ELSE <<text>> \o Repeat(text, n - 1)

ArithmeticRuns ==
    { [texts |-> <<<<op>>>>,
       ram |-> Frame(259, <<300, 400, 3000, 3010>>)
                 @@ (256 :> 77) @@ (257 :> x) @@ (258 :> y)] :
      op \in OpTexts, x \in Operands, y \in Operands }

SumRun ==
    [texts |-> <<PushConstant(7), PushConstant(8), <<<<"a","d","d">>>> >>,
     ram |-> Frame(256, <<300, 400, 3000, 3010>>)]

RoundTripRuns ==
    { [texts |-> << <<KwPush, seg, ToDecimal(i)>>, <<KwPop, seg, ToDecimal(i)>> >>,
       ram |-> Frame(257, ptrs) @@ (256 :> 77) @@ SegmentCells(ptrs)] :
      seg \in RoundTripSegments, i \in 0..MaxIndex, ptrs \in PointerSets }

Bodies == { <<>>, <<PushConstant(9)>>, << <<KwPush, KwArgument, <<"0">>>> >> }

CallRuns ==
    { [texts |-> Repeat(PushConstant(11), n)
                   \o << <<KwCall, <<"f">>, ToDecimal(n)>>,
                         <<KwGoto, <<"E","N","D">>>>,
                         <<KwFunction, <<"f">>, ToDecimal(k)>> >>
                   \o body
                   \o << <<KwReturn>>, <<KwLabel, <<"E","N","D">>>> >>,
       ram |-> Frame(257, ptrs) @@ (256 :> 77)] :
      n \in 0..MaxArgs, k \in 0..MaxLocals, body \in Bodies, ptrs \in PointerSets }

IfGotoRuns ==
    { [texts |-> << PushConstant(v), <<KwIfGoto, <<"L">>>>, PushConstant(1),
                    <<KwLabel, <<"L">>>> >>,
       ram |-> Frame(256, <<300, 400, 3000, 3010>>)] : v \in {0, 1, 5} }

StaticRun ==
    [texts |-> << <<KwPush, KwStatic, <<"0">>>>, <<KwPop, KwStatic, <<"0">>>> >>,
     ram |-> Frame(256, <<300, 400, 3000, 3010>>)]

EmptyRun == [texts |-> <<>>, ram |-> Frame(258, <<300, 400, 3000, 3010>>)]

\* a user label that is spelled like the first label make_label returns
ClashRun ==
    [texts |-> << <<KwLabel, <<"_","_","V","M","_","I","M","P","L","_",
                              "L","A","B","E","L","_","0">> >>,
                  << <<"e","q">> >> >>,
     ram |-> Frame(259, <<300, 400, 3000, 3010>>)
               @@ (256 :> 77) @@ (257 :> 5) @@ (258 :> 5)]

\* indices of the pointer and temp accesses that are run
DirectIndices == {0, 1, 2, 7, 8, 9}

\* a value is popped into a cell of pointer or temp and pushed back from it
DirectRuns ==
    { [texts |-> << PushConstant(77), <<KwPop, seg, ToDecimal(i)>>,
                    <<KwPush, seg, ToDecimal(i)>> >>,
       ram |-> Frame(256, <<300, 400, 3000, 3010>>)] :
      seg \in { <<"p","o","i","n","t","e","r">>, <<"t","e","m","p">> },
      i \in DirectIndices }

Runs == ArithmeticRuns \cup {SumRun} \cup RoundTripRuns \cup CallRuns
          \cup IfGotoRuns \cup {StaticRun, EmptyRun, ClashRun} \cup DirectRuns

ExecInit ==
    \E run \in Runs :
        \E r \in {parse(<<>>, 0, Flatten(run.texts))} :
          /\ commands = r.commands
          /\ static_size = r.static_size
          /\ files = <<run.texts>>
          /\ results = <<r.ok>>
          /\ starts = <<0>>
          /\ sizes = <<0>>
          /\ before = <<>>
          /\ phase = "parsed"
          /\ asm = <<>>
          /\ pc = 0
          /\ regA = 0
          /\ regD = 0
          /\ ram = run.ram
          /\ ram0 = run.ram
          /\ return_at = 0
          /\ snap = <<>>

ExecNext == Translate \/ StepAt \/ StepComp \/ StepMark

SpecExec == ExecInit /\ [][ExecNext]_vars

(***************************************************************************)
(* Helpers of the parser claims: where an instruction of the program came  *)
(* from.  A command text emits two instructions when it is a `function`    *)
(* command and one otherwise.                                              *)
(***************************************************************************)
IsStatic(c) == c.kind \in {"Push", "Pop"} /\ c.segment = "Static"

EndOf(i) == IF i < Len(files) THEN starts[i + 1] ELSE Len(commands)

FileOf(k) == CHOOSE i \in 1..Len(files) : starts[i] < k /\ k <= EndOf(i)

Emitted(text) == IF Head(text) = <<"f","u","n","c","t","i","o","n">> THEN 2 ELSE 1

RECURSIVE TextAt(_, _)
TextAt(texts, j) ==
    IF j <= Emitted(Head(texts)) THEN Head(texts)
    ELSE TextAt(Tail(texts), j - Emitted(Head(texts)))

TextOf(k) == TextAt(files[FileOf(k)], k - starts[FileOf(k)])

WrittenIndex(k) == DecimalValue(TextOf(k)[3], 0)

RECURSIVE EmittedBy(_)
EmittedBy(texts) ==
    IF texts = <<>> THEN 0 ELSE Emitted(Head(texts)) + EmittedBy(Tail(texts))

FailsAlone(text) == ~parse(<<>>, 0, text).ok

FirstFailing(texts) ==
    CHOOSE j \in 1..Len(texts) :
        FailsAlone(texts[j]) /\ \A i \in 1..(j - 1) : ~FailsAlone(texts[i])

PushStatic0 == <<<<"p","u","s","h">>, <<"s","t","a","t","i","c">>, <<"0">>>>
PushStatic1 == <<<<"p","u","s","h">>, <<"s","t","a","t","i","c">>, <<"1">>>>
FunctionFx  == <<<<"f","u","n","c","t","i","o","n">>, <<"f">>, <<"x">>>>

(***************************************************************************)
(* C2: two static push/pop instructions from different source texts never  *)
(* carry the same stored index, and two from the same source text carry    *)
(* the same stored index exactly when their written indices are equal.     *)
(***************************************************************************)
StaticSlotsNeverAlias ==
    \A k1, k2 \in 1..Len(commands) :
        (IsStatic(commands[k1]) /\ IsStatic(commands[k2])) =>
            /\ TextOf(k1)[2] = <<"s","t","a","t","i","c">>
            /\ FileOf(k1) # FileOf(k2) => commands[k1].index # commands[k2].index
            /\ FileOf(k1) = FileOf(k2) =>
                 (commands[k1].index = commands[k2].index
                    <=> WrittenIndex(k1) = WrittenIndex(k2))

\* two files, each using static 0 and static 1, resolve to four slots
StaticSlotsWitness ==
    /\ files = << <<PushStatic0, PushStatic1>>, <<PushStatic0, PushStatic1>> >>
    /\ Cardinality({commands[k].index : k \in 1..Len(commands)}) = 4

(***************************************************************************)
(* C3: over any sequence of parse calls, successful or failing,            *)
(* static_size never decreases, and every static index stored in a Push    *)
(* or Pop of the program is strictly less than the current static_size.    *)
(***************************************************************************)
StaticSizeMonotoneAndAbove ==
    /\ \A i \in 1..Len(sizes) :
         sizes[i] <= (IF i < Len(sizes) THEN sizes[i + 1] ELSE static_size)
    /\ \A k \in 1..Len(commands) :
         IsStatic(commands[k]) => commands[k].index < static_size

\* a failing parse that stored static 1 and then static 0 before it failed
StaticSizeWitness ==
    /\ Len(files) = 2
    /\ ~results[2]
    /\ sizes[2] > 0
    /\ \E k \in 2..Len(commands) :
         /\ starts[2] < k - 1
         /\ IsStatic(commands[k - 1]) /\ IsStatic(commands[k])
         /\ commands[k].index < commands[k - 1].index

(***************************************************************************)
(* C10: when parse returns an error, the program's instructions are those  *)
(* before the call followed by the instructions of exactly the commands    *)
(* that precede the failing command, in source order; the failing command  *)
(* contributes nothing and nothing after it is parsed.                     *)
(***************************************************************************)
FailFastNoRollback ==
    (files # <<>> /\ ~results[Len(results)]) =>
        LET texts  == files[Len(files)]
            failed == { j \in 1..Len(texts) : FailsAlone(texts[j]) }
        IN  /\ failed # {}
            /\ LET preceding == SubSeq(texts, 1, FirstFailing(texts) - 1)
                   alone == parse(before, sizes[Len(sizes)], Flatten(preceding))
               IN  /\ alone.ok
                   /\ commands = alone.commands
                   /\ SubSeq(commands, 1, Len(before)) = before
                   /\ Len(commands) = Len(before) + EmittedBy(preceding)

\* a second file that fails at `function f x` after one good command, with a
\* command after the failing one
FailFastWitness ==
    /\ Len(files) = 2
    /\ ~results[2]
    /\ before # <<>>
    /\ Len(files[2]) = 3
    /\ files[2][2] = FunctionFx
    /\ Len(commands) = Len(before) + 1

(***************************************************************************)
(* Helpers of the execution claims.                                        *)
(***************************************************************************)
SPOf(mem) == Read(mem, 0)

\* the run fell off the end of the output, the way a straight run ends
RanToEnd == Halted /\ pc = Len(asm) + 1

\* the source of the run is the one arithmetic command op
OnlyCommand(opText) == phase = "run" /\ files = << << <<opText>> >> >>

\* the operands of an arithmetic run: x below y on top of the stack
LeftOperand  == Read(ram0, SPOf(ram0) - 2)
RightOperand == Read(ram0, SPOf(ram0) - 1)

StackBelowUnchanged(top) ==
    \A a \in 256..(top - 1) : Read(ram, a) = Read(ram0, a)

IsSumRun == phase = "run" /\ files = <<SumRun.texts>>

IsCallRun ==
    /\ phase = "run"
    /\ \E k \in 1..Len(commands) : commands[k].kind = "Call"

IsRoundTripRun ==
    /\ phase = "run"
    /\ Len(commands) = 2
    /\ commands[1].kind = "Push" /\ commands[2].kind = "Pop"
    /\ commands[1].segment = commands[2].segment
    /\ commands[1].index = commands[2].index

IsIfGotoRun == files \in { <<run.texts>> : run \in IfGotoRuns }

(***************************************************************************)
(* C1: after a caller pushes n arguments and runs the code of `call f n`,  *)
(* and f, generated from `function f k ... return`, returns, SP is the SP  *)
(* before the arguments were pushed plus one, the cell at SP-1 holds the   *)
(* value that was on top of the stack when `return` started, and the LCL,  *)
(* ARG, THIS and THAT cells hold the values they had before the call.      *)
(***************************************************************************)
CallReturnRoundTrip ==
    (IsCallRun /\ Halted) =>
        /\ RanToEnd
        /\ snap # <<>>
        /\ SPOf(ram) = SPOf(ram0) + 1
        /\ Read(ram, SPOf(ram) - 1) = Read(snap, SPOf(snap) - 1)
        /\ \A cell \in 1..4 : Read(ram, cell) = Read(ram0, cell)
        /\ StackBelowUnchanged(SPOf(ram0))

\* `call f 2` of a function with one local that returns its first argument
CallReturnWitness ==
    /\ IsCallRun /\ RanToEnd
    /\ \E k \in 1..Len(commands) : commands[k] = Call(<<"f">>, 2)
    /\ \E k \in 1..Len(commands) : commands[k] = FnSetup(1)
    /\ \E k \in 1..Len(commands) : commands[k] = Push("Argument", 0)
    /\ SPOf(ram) = 258
    /\ Read(ram, 257) = 11

(***************************************************************************)
(* C4: translate never fails on a program that successful parse calls      *)
(* produced, whatever instruction kinds and segments it holds.             *)
(***************************************************************************)
TranslateNeverFails ==
    (\A i \in 1..Len(results) : results[i]) => phase # "panic"

(***************************************************************************)
(* C5: the code of IfGoto(name) pops the top of the stack and jumps to     *)
(* the marker exactly when the popped value is not zero; on zero the run   *)
(* goes on with the next instruction.                                      *)
(***************************************************************************)
IfGotoPopsAndBranches ==
    IsIfGotoRun =>
        /\ phase # "panic"
        /\ Halted =>
             /\ RanToEnd
             /\ IF commands[1].index # 0
                THEN SPOf(ram) = SPOf(ram0)
                ELSE SPOf(ram) = SPOf(ram0) + 1 /\ Read(ram, SPOf(ram0)) = 1

(***************************************************************************)
(* C6: for every program, the empty one too, the output begins with code   *)
(* that sets SP to the start of stack memory, before the code of any       *)
(* lowered instruction.                                                    *)
(***************************************************************************)
BeginsWithStackInit(text) ==
    \E n \in 2..Len(text) :
        /\ text[n - 1] = At(STACK_POINTER_ADDR)
        /\ text[n].op = "Comp" /\ text[n].dest = "M"
        /\ \E m \in 1..(n - 2) : text[m] = At(ToDecimal(STACK_MEMORY_START))
        /\ \A j \in 1..n : text[j].op # "Mark"

OutputBeginsWithStackInit ==
    phase = "run" =>
        /\ BeginsWithStackInit(asm)
        /\ (commands = <<>> /\ Halted) => SPOf(ram) = STACK_MEMORY_START

(***************************************************************************)
(* C7: for local, argument, this, that, pointer and temp and every index   *)
(* i, the code of `push segment i` followed by `pop segment i` leaves SP,  *)
(* the four pointer cells and every segment cell as they were.             *)
(***************************************************************************)
PushPopRoundTrip ==
    (IsRoundTripRun /\ Halted) =>
        /\ RanToEnd
        /\ \A a \in DOMAIN ram0 : Read(ram, a) = ram0[a]

(***************************************************************************)
(* C8: with x below y on top of the stack, the code of eq, gt and lt       *)
(* takes one cell off the stack and leaves -1 or 0 on top: eq leaves -1    *)
(* exactly when x = y; gt and lt leave 0 when x = y; and when x # y and    *)
(* x - y fits a signed 16-bit word, gt leaves -1 exactly when x > y and lt *)
(* exactly when x < y.                                                     *)
(***************************************************************************)
ComparisonLowering ==
    \A opText \in { <<"e","q">>, <<"g","t">>, <<"l","t">> } :
        (OnlyCommand(opText) /\ Halted) =>
           LET x == Signed(LeftOperand)
               y == Signed(RightOperand)
               top == Read(ram, SPOf(ram) - 1)
           IN  /\ RanToEnd
               /\ SPOf(ram) = SPOf(ram0) - 1
               /\ top \in {0, 65535}
               /\ opText = <<"e","q">> => (top = 65535 <=> x = y)
               /\ (opText # <<"e","q">> /\ x = y) => top = 0
               /\ (x # y /\ x - y \in (-32768)..32767) =>
                    /\ opText = <<"g","t">> => (top = 65535 <=> x > y)
                    /\ opText = <<"l","t">> => (top = 65535 <=> x < y)

\* gt on 5 and -1 leaves true
ComparisonWitness ==
    /\ OnlyCommand(<<"g","t">>) /\ RanToEnd
    /\ LeftOperand = 5 /\ RightOperand = 65535
    /\ Read(ram, SPOf(ram) - 1) = 65535

(***************************************************************************)
(* C9: with x below y on top of the stack, the code of add, sub, and, or   *)
(* takes one cell off the stack and leaves x+y, x-y, x&y, x|y (16-bit) on  *)
(* top with the cells below unchanged; `push constant 7`, `push constant   *)
(* 8`, `add` leaves one cell above the initial SP, holding 15; neg and not *)
(* replace the top value in place and leave SP alone.                      *)
(***************************************************************************)
ArithmeticLowering ==
    /\ \A opText \in { <<"a","d","d">>, <<"s","u","b">>, <<"a","n","d">>, <<"o","r">> } :
         (OnlyCommand(opText) /\ Halted) =>
            /\ RanToEnd
            /\ SPOf(ram) = SPOf(ram0) - 1
            /\ Read(ram, SPOf(ram) - 1) =
                 CASE opText = <<"a","d","d">> -> (LeftOperand + RightOperand) % 65536
                   [] opText = <<"s","u","b">> -> (LeftOperand - RightOperand) % 65536
                   [] opText = <<"a","n","d">> -> BitAnd(LeftOperand, RightOperand)
                   [] opText = <<"o","r">>     -> BitOr(LeftOperand, RightOperand)
            /\ StackBelowUnchanged(SPOf(ram) - 1)
    /\ \A opText \in { <<"n","e","g">>, <<"n","o","t">> } :
         (OnlyCommand(opText) /\ Halted) =>
            /\ RanToEnd
            /\ SPOf(ram) = SPOf(ram0)
            /\ Read(ram, SPOf(ram) - 1) =
                 IF opText = <<"n","e","g">> THEN (65536 - RightOperand) % 65536
                 ELSE 65535 - RightOperand
            /\ StackBelowUnchanged(SPOf(ram) - 1)
    /\ (IsSumRun /\ Halted) =>
            /\ RanToEnd
            /\ SPOf(ram) = SPOf(ram0) + 1
            /\ Read(ram, SPOf(ram0)) = 15

\* sub on 5 and 1 leaves 4, and the sum of 7 and 8 is reached as well
ArithmeticWitness ==
    /\ OnlyCommand(<<"s","u","b">>) /\ RanToEnd
    /\ LeftOperand = 5 /\ RightOperand = 1
    /\ Read(ram, SPOf(ram) - 1) = 4
    /\ Read(ram, 256) = 77

(***************************************************************************)
(* Helpers of the argument claims: the slot and the token of the one       *)
(* command of file i.                                                      *)
(***************************************************************************)
SlotOf(i)  == SubSeq(files[i][1], 1, 2)
TokenOf(i) == files[i][1][3]

PopConstant == << <<"p","o","p">>, <<"c","o","n","s","t","a","n","t">> >>

\* the unsigned-integer grammar: decimal digits only, value in [0, 32767]
IsUnsigned(token) ==
    /\ token # <<>>
    /\ \A j \in 1..Len(token) : IsDigit(token[j])
    /\ DecimalValue(token, 0) <= 32767

(***************************************************************************)
(* C11: in a numeric-argument slot (push/pop index, function local count,  *)
(* call argument count) a token is accepted exactly when it consists of    *)
(* decimal digits only and its value is in [0, 32767]: 32767 is accepted,  *)
(* 32768 is rejected, and a token with a non-digit character such as `3x`  *)
(* or a sign is rejected.                                                  *)
(***************************************************************************)
UnsignedArgumentGrammar ==
    \A i \in 1..Len(files) :
        SlotOf(i) # PopConstant => (results[i] <=> IsUnsigned(TokenOf(i)))

(***************************************************************************)
(* C12: for every valid index n, parsing `pop constant n` returns an       *)
(* error, appends no instruction and leaves static_size unchanged;         *)
(* parsing `pop s n` for every other segment s succeeds and appends        *)
(* exactly one Pop instruction; no program holds a Pop into constant.      *)
(***************************************************************************)
SizeAfter(i) == IF i < Len(sizes) THEN sizes[i + 1] ELSE static_size

PopConstantRejected ==
    /\ \A i \in 1..Len(files) :
         (Head(SlotOf(i)) = <<"p","o","p">> /\ IsUnsigned(TokenOf(i))) =>
            IF SlotOf(i) = PopConstant
            THEN /\ ~results[i]
                 /\ EndOf(i) = starts[i]
                 /\ SizeAfter(i) = sizes[i]
            ELSE /\ results[i]
                 /\ EndOf(i) = starts[i] + 1
                 /\ commands[EndOf(i)].kind = "Pop"
                 /\ commands[EndOf(i)].segment = MemorySegment_from_name(SlotOf(i)[2])
    /\ \A k \in 1..Len(commands) :
         ~(commands[k].kind = "Pop" /\ commands[k].segment = "Constant")

\* `pop constant 0` fails after `pop static 0` and leaves the program as it was
PopConstantWitness ==
    /\ Len(files) = 2
    /\ SlotOf(1) = << <<"p","o","p">>, <<"s","t","a","t","i","c">> >>
    /\ SlotOf(2) = PopConstant
    /\ TokenOf(1) = <<"0">> /\ TokenOf(2) = <<"0">>
    /\ results = <<TRUE, FALSE>>
    /\ commands = <<Pop("Static", 0)>>
    /\ static_size = 1

(***************************************************************************)
(* C13: every label name the generator synthesizes (for comparisons and    *)
(* call return sites) is defined exactly once in the output: it differs    *)
(* from every other synthesized label and from every user label and        *)
(* function name the parser accepts.                                       *)
(***************************************************************************)
\* the labels make_label returned while the commands were translated
SynthesizedLabels(cmds) ==
    { make_label([next_unnamed_label_id |-> n]).label :
        n \in 0..(Translator_translate([next_unnamed_label_id |-> 0,
                                        result |-> <<>>,
                                        current_num_locals |-> 0,
                                        panicked |-> FALSE],
                                       cmds).next_unnamed_label_id - 1) }

SynthesizedLabelsUnique ==
    phase = "run" =>
        \A name \in SynthesizedLabels(commands) : Cardinality(MarksOf(asm, name)) = 1

(***************************************************************************)
(* C14: after the code of `return` has run, control resumes at the return  *)
(* label defined right after the matching call site, for every argument    *)
(* count, 0 too, where the cell that receives the return value is the cell *)
(* that held the saved return address: the return address is read from     *)
(* the frame before the return value is written.                           *)
(***************************************************************************)
\* the last line of the code of the first `return`: its jump
ReturnJumpAt == return_at + Len(translate_return([result |-> <<>>]).result) - 1

\* the label line that follows the jump to the callee f
CallSiteLabelAt ==
    CHOOSE p \in 3..Len(asm) :
        /\ asm[p].op = "Mark"
        /\ asm[p - 1] = Comp("", "0", "JEQ")
        /\ asm[p - 2] = At(<<"f">>)

ReturnResumesAtCallSite ==
    IsCallRun =>
        /\ \E p \in 3..Len(asm) :
             asm[p].op = "Mark" /\ asm[p - 1] = Comp("", "0", "JEQ")
                                /\ asm[p - 2] = At(<<"f">>)
        /\ (Running /\ pc = ReturnJumpAt) =>
             /\ asm[pc] = Comp("", "0", "JEQ")
             /\ regA = CallSiteLabelAt
        /\ pc = CallSiteLabelAt => snap # <<>>

\* `call f 0` of a function that returns 9: at the jump of `return` the cell
\* that held the return address holds 9 and A holds the return label
ReturnResumesWitness ==
    /\ IsCallRun /\ Running
    /\ pc = ReturnJumpAt
    /\ \E k \in 1..Len(commands) : commands[k] = Call(<<"f">>, 0)
    /\ Read(snap, SPOf(ram0)) = CallSiteLabelAt
    /\ Read(ram, SPOf(ram0)) = 9
    /\ regA = CallSiteLabelAt

(***************************************************************************)
(* C15: for every program parse accepts, the code of a push or pop on temp *)
(* accesses only a cell of the temp region, never SP, LCL, ARG, THIS, THAT *)
(* or the scratch cells R13-R15, and the code of a push or pop on pointer  *)
(* accesses only the THIS cell (index 0) or the THAT cell (index 1).       *)
(***************************************************************************)
IsDirectRun ==
    /\ phase = "run"
    /\ Len(commands) = 3
    /\ commands[2].kind = "Pop" /\ commands[3].kind = "Push"
    /\ commands[2].segment \in {"Temp", "Pointer"}
    /\ commands[3].segment = commands[2].segment

\* the machine is at the line that reads or writes the cell a direct access
\* addressed by its number
AtDirectAccess ==
    /\ Running
    /\ pc > 1
    /\ asm[pc].op = "Comp"
    /\ asm[pc].dest = "M" \/ asm[pc].comp = "M"
    /\ asm[pc - 1].op = "At"
    /\ IsNumber(asm[pc - 1].operand)

DirectAccessInsideRegion ==
    (IsDirectRun /\ AtDirectAccess) =>
        IF commands[2].segment = "Temp" THEN regA \in 5..12 ELSE regA \in 3..4

(***************************************************************************)
(* C16: after any sequence of successful parse calls into one program,     *)
(* every Push of the program, for every segment, static after its index    *)
(* was offset by the static base too, has an index of at most 32767.       *)
(***************************************************************************)
PushIndexBounded ==
    (\A i \in 1..Len(results) : results[i]) =>
        \A k \in 1..Len(commands) :
            commands[k].kind = "Push" => commands[k].index <= 32767

====
